---- MODULE Spec2Model ----
(***************************************************************************)
(* Model of the request handlers of src/src/lambda_function.py: a single   *)
(* DynamoDB table keyed by (pk, sk), the bearer-token authentication, and  *)
(* the property / finance / loan / profile handlers that read and write    *)
(* it.  Each handler is an operator from (table, request inputs) to a      *)
(* result (response, new table, number of store reads and writes); each    *)
(* action applies one handler to one request.                              *)
(***************************************************************************)
EXTENDS Integers, Sequences, FiniteSets, TLC

VARIABLES
    table,        \* the DynamoDB table: a function from keys [pk, sk] to items
    uuids,        \* how many values uuid.uuid4() has returned so far
    clock,        \* datetime.utcnow()
    before,       \* history: the table as it was before the last request
    last,         \* history: the last request and its response
    createdBy,    \* history: property id -> owner_id written by create_property
    scen,         \* history: progress of the create/get/get/delete/get scenario
    fresh,        \* history: the last successful create, while only gets follow
    inflight,     \* update_property requests between their read and their write
    pool          \* the Cognito user pool: username -> password, state, attributes

vars == <<table, uuids, clock, before, last, createdBy, scen, fresh, inflight, pool>>

---------------------------------------------------------------------------
(* Bounds *)

\* Spec: uuid.uuid4() is called at most MaxUuid times in a behaviour
MaxUuid == 1
\* SpecCreate: create_property succeeds at most MaxCreates times in a behaviour
MaxCreates == 2
\* SpecLoan: uuid.uuid4() is called at most MaxLoanUuid times in a behaviour
MaxLoanUuid == 2
\* SpecProfile: update_profile creates at most MaxProfiles profiles
MaxProfiles == 2
\* SpecLoanUpdate: uuid.uuid4() is called at most MaxPatchUuid times
MaxPatchUuid == 1
\* SpecFinance: uuid.uuid4() is called at most MaxFinanceUuid times
MaxFinanceUuid == 4
\* SpecRace: at most MaxInflight update_property requests are in flight, and
\* uuid.uuid4() is called at most MaxRaceUuid times
MaxInflight == 1
MaxRaceUuid == 1
\* SpecAuth: uuid.uuid4() is called at most MaxAuthUuid times
MaxAuthUuid == 2
\* SpecRouter: a behaviour has at most MaxClock requests, and the clock
\* advances by one with each
MaxClock == 2

---------------------------------------------------------------------------
(* Values.  Every JSON / DynamoDB attribute value carries its Python type. *)

Str(s) == [t |-> "str", s |-> s]
IntV(v) == [t |-> "int", v |-> v, f |-> 0]
\* a float or a Decimal with integral part v and tenths f
FloatV(v, f) == [t |-> "float", v |-> v, f |-> f]
DecV(v, f) == [t |-> "decimal", v |-> v, f |-> f]
None == [t |-> "null"]
\* the n-th string returned by str(uuid.uuid4())
Uuid(n) == "uuid-" \o ToString(n)
\* a timestamp string datetime.utcnow().isoformat()
Iso(c) == [t |-> "iso", c |-> c]

EmptyObj == [k \in {} |-> None]

\* dict.get(key, default)
Get(d, key, default) == IF key \in DOMAIN d THEN d[key] ELSE default

\* Python truthiness of a value
Truthy(x) ==
    CASE x.t = "null" -> FALSE
      [] x.t = "str" -> x.s # ""
      [] x.t \in {"int", "float", "decimal"} -> ~(x.v = 0 /\ x.f = 0)
      [] OTHER -> TRUE

IsNumber(x) == x.t \in {"int", "float", "decimal"}

\* x < 0 for a number x
Negative_below_minus_one(x) == x.v < -1

Negative(x) == x.v < 0

---------------------------------------------------------------------------
(* Requests *)

\* the subjects the identity provider knows
Users == {"U1", "U2"}

\* Authorization header values: a scheme and a token.  Token "tok-U" is a
\* JWT that Cognito's keys verify with sub = U; "bad" verifies for nobody.
Bearer(tok) == [scheme |-> "Bearer", token |-> tok]
AuthValues == {Bearer("tok-U1"), Bearer("tok-U2"), Bearer("bad"),
               [scheme |-> "Basic", token |-> "tok-U1"]}
HeaderSets == {EmptyObj} \cup {[Authorization |-> a] : a \in AuthValues}

\* jwt.decode against the pool's keys: the claims' sub, or an exception
jwt_decode(token) ==
    IF \E u \in Users : token = "tok-" \o u
    THEN Str(CHOOSE u \in Users : token = "tok-" \o u)
    ELSE None

\* a python `a or b`
Or(a, b) == IF Truthy(a) THEN a ELSE b

\* get_authenticated_user_id without the startswith('Bearer ') test
get_authenticated_user_id_any_scheme(event) ==
    LET hs == Get(event, "headers", EmptyObj)
        auth_header == IF "Authorization" \in DOMAIN hs THEN hs["Authorization"]
                       ELSE IF "authorization" \in DOMAIN hs THEN hs["authorization"]
                       ELSE None
    IN  IF auth_header = None THEN None ELSE jwt_decode(auth_header.token)

get_authenticated_user_id(event) ==
    LET hs == Get(event, "headers", EmptyObj)
        auth_header == IF "Authorization" \in DOMAIN hs THEN hs["Authorization"]
                       ELSE IF "authorization" \in DOMAIN hs THEN hs["authorization"]
                       ELSE None
    IN  IF auth_header = None THEN None
        ELSE IF auth_header.scheme # "Bearer" THEN None
        ELSE jwt_decode(auth_header.token)

\* json.loads(event['body']) raises when the key is missing or the text is
\* not JSON; a body that parses is carried as [json |-> <the object>]
Garbage == [garbage |-> TRUE]
JsonBody(obj) == [json |-> obj]
BodyParses(event) == "body" \in DOMAIN event /\ "json" \in DOMAIN event.body
json_loads(event) == event.body.json

---------------------------------------------------------------------------
(* The table *)

\* keys are pairs of strings; an item carries them as its pk and sk attributes
Key(pk, sk) == [pk |-> pk, sk |-> sk]
KeyOf(item) == Key(item.pk.s, item.sk.s)
\* Key={'pk': f'PROPERTY#{property_id}', 'sk': 'METADATA'}
PropertyKey(property_id) == Key("PROPERTY#" \o property_id, "METADATA")
\* str.startswith
StartsWith(s, prefix) ==
    Len(s) >= Len(prefix) /\ SubSeq(s, 1, Len(prefix)) = prefix

\* table.get_item(Key=key): {'Item': item} or {}
HasItem(tbl, key) == key \in DOMAIN tbl
\* what the table holds of an item: a Python int is written as a DynamoDB
\* number, which every read returns as a Decimal
Stored(item) ==
    [a \in DOMAIN item |->
        IF item[a].t = "int" THEN DecV(item[a].v, 0) ELSE item[a]]
\* whether an item holds a Python float: boto3 refuses to serialize one
\* (TypeError: Float types are not supported. Use Decimal types instead),
\* so put_item raises before anything reaches the table
HasFloat(item) == \E a \in DOMAIN item : item[a].t = "float"
\* table.put_item(Item=item): insert or replace the item with item's key
put_item(tbl, item) ==
    LET key == KeyOf(item)
    IN  [k \in DOMAIN tbl \cup {key} |-> IF k = key THEN Stored(item) ELSE tbl[k]]
\* table.delete_item(Key=key): no error when the key is absent
delete_item(tbl, key) == [k \in DOMAIN tbl \ {key} |-> tbl[k]]
\* table.update_item(Key=key, UpdateExpression="SET a = :a, ..."): sets the
\* attributes on the item, creating the item (key attributes only) if absent
update_item(tbl, key, sets) ==
    LET old == IF key \in DOMAIN tbl THEN tbl[key]
               ELSE [pk |-> Str(key.pk), sk |-> Str(key.sk)]
        new == [a \in DOMAIN old \cup DOMAIN sets |->
                   IF a \in DOMAIN sets THEN Stored(sets)[a] ELSE old[a]]
    IN  [k \in DOMAIN tbl \cup {key} |-> IF k = key THEN new ELSE tbl[k]]

---------------------------------------------------------------------------
(* Handlers.  A handler's result: the response, the table it leaves, and   *)
(* how many store reads, store writes and uuid4() calls it made.           *)

Result(statusCode, body, tbl, reads, writes, uuidCalls) ==
    [statusCode |-> statusCode, body |-> body, tbl |-> tbl,
     reads |-> reads, writes |-> writes, uuidCalls |-> uuidCalls]

convert_floats_to_decimals(obj) ==
    [k \in DOMAIN obj |->
        IF obj[k].t = "float" THEN DecV(obj[k].v, obj[k].f) ELSE obj[k]]

\* int(x) of a Decimal, as a float
ToFloat_truncated(x) == FloatV(x.v, 0)

\* float(x) of a Decimal
ToFloat(x) == FloatV(x.v, x.f)

format_property(item) ==
    [id |-> Get(item, "id", Get(item, "property_id", Str(""))),
     owner_id |-> Get(item, "owner_id", Str("")),
     title |-> Get(item, "title", Str("")),
     status |-> Get(item, "status", Str("active")),
     createdAt |-> Get(item, "created_at", Str("")),
     updatedAt |-> Get(item, "updated_at", Str("")),
     rent |-> IF Get(item, "price", None).t = "decimal"
              THEN ToFloat(item.price) ELSE Get(item, "price", IntV(0))]

create_property(tbl, event, uuid, now) ==
    LET owner_id == get_authenticated_user_id(event)
    IN  IF ~Truthy(owner_id)
        THEN Result(401, [error |-> "Authentication required"], tbl, 0, 0, 0)
        ELSE IF ~BodyParses(event)
        THEN Result(500, [error |-> "Failed to create property"], tbl, 0, 0, 0)
        ELSE
        LET data == json_loads(event)
            price == Get(data, "price", IntV(0))
        IN  IF ~Truthy(Get(data, "title", None))
            THEN Result(400, [error |-> "Invalid property data"], tbl, 0, 0, 0)
            ELSE IF price # None /\ ~IsNumber(price)
            THEN Result(500, [error |-> "Failed to create property"], tbl, 0, 0, 0)
            ELSE IF price # None /\ Negative(price)
            THEN Result(400, [error |-> "Invalid property data"], tbl, 0, 0, 0)
            ELSE
            LET item == convert_floats_to_decimals(
                    [pk |-> Str("PROPERTY#" \o uuid),
                     sk |-> Str("METADATA"),
                     gsi1pk |-> Str("OWNER#" \o owner_id.s),
                     id |-> Str(uuid),
                     owner_id |-> owner_id,
                     title |-> Get(data, "title", Str("")),
                     price |-> Get(data, "price", Get(data, "rent", IntV(0))),
                     status |-> Str("active"),
                     created_at |-> Iso(now),
                     updated_at |-> Iso(now)])
            IN  Result(201, format_property(item), put_item(tbl, item), 0, 1, 1)

\* get_property without its ownership check
get_property_unguarded(tbl, property_id, event) ==
    LET owner_id == get_authenticated_user_id(event)
        key == PropertyKey(property_id)
    IN  IF ~Truthy(owner_id)
        THEN Result(401, [error |-> "Authentication required"], tbl, 0, 0, 0)
        ELSE IF ~HasItem(tbl, key)
        THEN Result(404, [error |-> "Property not found"], tbl, 1, 0, 0)
        ELSE Result(200, [property |-> format_property(tbl[key])], tbl, 1, 0, 0)

get_property(tbl, property_id, event) ==
    LET owner_id == get_authenticated_user_id(event)
        key == PropertyKey(property_id)
    IN  IF ~Truthy(owner_id)
        THEN Result(401, [error |-> "Authentication required"], tbl, 0, 0, 0)
        ELSE IF ~HasItem(tbl, key)
        THEN Result(404, [error |-> "Property not found"], tbl, 1, 0, 0)
        ELSE IF Get(tbl[key], "owner_id", None) # owner_id
        THEN Result(403, [error |-> "Access denied - property not owned by user"],
                    tbl, 1, 0, 0)
        ELSE Result(200, [property |-> format_property(tbl[key])], tbl, 1, 0, 0)

convert_float_to_decimal(obj) ==
    [k \in DOMAIN obj |->
        IF obj[k].t = "float" THEN DecV(obj[k].v, obj[k].f) ELSE obj[k]]

\* data[new] = data.pop(old), when old is a key of data
RenameKey(data, old, new) ==
    IF old \notin DOMAIN data THEN data
    ELSE [k \in (DOMAIN data \ {old}) \cup {new} |->
             IF k = new THEN data[old] ELSE data[k]]

\* the attributes update_property's SET expression assigns
update_property_sets(event, now) ==
    LET data0 == json_loads(event)
        data1 == [k \in DOMAIN data0 \cup {"updated_at"} |->
                     IF k = "updated_at" THEN Iso(now) ELSE data0[k]]
        data2 == RenameKey(RenameKey(data1, "streetAddress", "street_address"),
                           "zipCode", "zip_code")
        data3 == convert_float_to_decimal(data2)
    IN  [k \in DOMAIN data3 \ {"id"} |-> data3[k]]

update_property(tbl, property_id, event, now) ==
    LET owner_id == get_authenticated_user_id(event)
        key == PropertyKey(property_id)
    IN  IF ~Truthy(owner_id)
        THEN Result(401, [error |-> "Authentication required"], tbl, 0, 0, 0)
        ELSE IF ~HasItem(tbl, key)
        THEN Result(404, [error |-> "Property not found"], tbl, 1, 0, 0)
        ELSE IF Get(tbl[key], "owner_id", None) # owner_id
        THEN Result(403, [error |-> "Access denied - property not owned by user"],
                    tbl, 1, 0, 0)
        ELSE IF ~BodyParses(event)
        THEN Result(500, [error |-> "Internal server error"], tbl, 1, 0, 0)
        ELSE
        LET new == update_item(tbl, key, update_property_sets(event, now))
        IN  Result(200, [property |-> format_property(new[key])], new, 1, 1, 0)

\* delete_property answering without deleting
delete_property_kept(tbl, property_id) ==
    Result(200, [message |-> "Property deleted"], tbl, 0, 0, 0)

\* a delete that takes the whole partition with it
delete_property_cascade(tbl, property_id) ==
    Result(200, [message |-> "Property deleted"],
           [k \in {q \in DOMAIN tbl : q.pk # "PROPERTY#" \o property_id} |-> tbl[k]],
           0, 1, 0)

delete_property(tbl, property_id) ==
    Result(200, [message |-> "Property deleted"],
           delete_item(tbl, PropertyKey(property_id)), 0, 1, 0)

---------------------------------------------------------------------------
(* Finance and loan handlers *)

FinanceKey(property_id) == Key("PROPERTY#" \o property_id, "FINANCE")
LoanKey(property_id, loan_id) == Key("PROPERTY#" \o property_id, "LOAN#" \o loan_id)

\* table.query(pk = :pk AND begins_with(sk, 'LOAN#')): the items, as a set
query_loans(tbl, property_id) ==
    {tbl[k] : k \in {q \in DOMAIN tbl : /\ q.pk = "PROPERTY#" \o property_id
                                        /\ StartsWith(q.sk, "LOAN#")}}

format_loan_data(item) ==
    [id |-> Get(item, "loan_id", Str("")),
     propertyId |-> Get(item, "property_id", Str("")),
     lender |-> Get(item, "lender", Str("")),
     originalAmount |-> IF Get(item, "original_amount", None).t = "decimal"
                        THEN ToFloat(item.original_amount)
                        ELSE Get(item, "original_amount", IntV(0)),
     createdAt |-> Get(item, "created_at", Str("")),
     updatedAt |-> Get(item, "updated_at", Str(""))]

format_finance_data(tbl, item) ==
    LET property_id == Get(item, "property_id", Str(""))
    IN  [propertyId |-> property_id,
         ownershipType |-> Get(item, "ownership_type", Str("individual")),
         ownershipStatus |-> Get(item, "ownership_status", Str("owned")),
         purchaseInfo |->
             [purchasePrice |-> IF Get(item, "purchase_price", None).t = "decimal"
                                THEN ToFloat(item.purchase_price)
                                ELSE Get(item, "purchase_price", IntV(0))],
         loans |-> IF Truthy(property_id)
                   THEN {format_loan_data(l) : l \in query_loans(tbl, property_id.s)}
                   ELSE {},
         createdAt |-> Get(item, "created_at", Str("")),
         updatedAt |-> Get(item, "updated_at", Str(""))]

---------------------------------------------------------------------------
(* The formatters on any argument.  A call either returns a value or       *)
(* raises; item is None or a dict whose values may have any type.         *)

Raised == [raised |-> TRUE]
Returned(value) == [raised |-> FALSE, value |-> value]

\* the strings int() accepts, among those of the model
IntLiterals == {"0", "2", "30"}

\* `int(x) if x else d` raises: x is truthy and int(x) is a ValueError
IntRaises(x) == Truthy(x) /\ x.t = "str" /\ x.s \notin IntLiterals

\* the try block of format_property: item.get on None is an AttributeError
format_property_try(item) ==
    IF item = None THEN Raised
    ELSE IF \/ IntRaises(Get(item, "bedrooms", None))
            \/ IntRaises(Get(item, "squareFeet", None))
            \/ IntRaises(Get(item, "garageCars", None))
    THEN Raised
    ELSE Returned(format_property(item))

\* the except block of format_property, which reads item again
format_property_except(item) ==
    IF item = None THEN Raised
    ELSE Returned([id |-> Get(item, "id", Str("unknown")),
                   title |-> Get(item, "title", Str("Unknown Property")),
                   rent |-> IntV(0),
                   status |-> Str("active"),
                   createdAt |-> Get(item, "created_at", Str("")),
                   updatedAt |-> Get(item, "updated_at", Str("")),
                   images |-> <<>>])

format_property_outcome(item) ==
    IF format_property_try(item).raised
    THEN format_property_except(item) ELSE format_property_try(item)

format_loan_data_try(item) ==
    IF item = None THEN Raised
    ELSE IF IntRaises(Get(item, "term_years", None)) THEN Raised
    ELSE Returned(format_loan_data(item))

format_loan_data_except(item) ==
    IF item = None THEN Raised
    ELSE Returned([id |-> Get(item, "loan_id", Str("")),
                   lender |-> Str("Unknown"),
                   originalAmount |-> IntV(0)])

format_loan_data_outcome(item) ==
    IF format_loan_data_try(item).raised
    THEN format_loan_data_except(item) ELSE format_loan_data_try(item)

\* store_ok: whether table.query answers
format_finance_data_try(tbl, item, store_ok) ==
    IF item = None THEN Raised
    ELSE IF Truthy(Get(item, "property_id", Str(""))) /\ ~store_ok THEN Raised
    ELSE Returned(format_finance_data(tbl, item))

format_finance_data_except(item) ==
    IF item = None THEN Raised
    ELSE Returned([propertyId |-> Get(item, "property_id", Str("")),
                   ownershipType |-> Str("individual"),
                   ownershipStatus |-> Str("owned"),
                   purchaseInfo |-> EmptyObj,
                   loans |-> {}])

format_finance_data_outcome(tbl, item, store_ok) ==
    IF format_finance_data_try(tbl, item, store_ok).raised
    THEN format_finance_data_except(item)
    ELSE format_finance_data_try(tbl, item, store_ok)

get_property_finance(tbl, property_id, event) ==
    LET owner_id == get_authenticated_user_id(event)
        key == PropertyKey(property_id)
    IN  IF ~Truthy(owner_id)
        THEN Result(401, [error |-> "Authentication required"], tbl, 0, 0, 0)
        ELSE IF ~HasItem(tbl, key)
        THEN Result(404, [error |-> "Property not found"], tbl, 1, 0, 0)
        ELSE IF Get(tbl[key], "owner_id", None) # owner_id
        THEN Result(403, [error |-> "Access denied - property not owned by user"],
                    tbl, 1, 0, 0)
        ELSE IF ~HasItem(tbl, FinanceKey(property_id))
        THEN Result(200, [finance |-> [propertyId |-> Str(property_id),
                                       ownershipType |-> None,
                                       ownershipStatus |-> None,
                                       purchaseInfo |-> EmptyObj,
                                       loans |-> {}]], tbl, 2, 0, 0)
        ELSE Result(200, [finance |->
                             format_finance_data(tbl, tbl[FinanceKey(property_id)])],
                    tbl, 3, 0, 0)

\* the loan item update_property_finance builds for one element of the body's
\* loans: loan.get("id", str(uuid.uuid4())) is evaluated once for sk and once
\* for loan_id, and calls uuid4() both times whether or not the id is there
FinanceLoanItem(property_id, loan, uuid_sk, uuid_id, now) ==
    [pk |-> Str("PROPERTY#" \o property_id),
     sk |-> Str("LOAN#" \o Get(loan, "id", Str(uuid_sk)).s),
     property_id |-> Str(property_id),
     loan_id |-> Get(loan, "id", Str(uuid_id)),
     lender |-> Get(loan, "lender", Str("")),
     original_amount |-> Get(loan, "originalAmount", IntV(0)),
     updated_at |-> Iso(now)]

\* the table after the loop `for loan in loans: table.put_item(loan_item)`,
\* the first uuid4() of the loop returning Uuid(n + 1)
RECURSIVE PutFinanceLoans(_, _, _, _, _)
PutFinanceLoans(tbl, property_id, loans, n, now) ==
    IF loans = <<>> THEN tbl
    ELSE IF HasFloat(FinanceLoanItem(property_id, Head(loans),
                                     Uuid(n + 1), Uuid(n + 2), now))
    THEN tbl
    ELSE PutFinanceLoans(
             put_item(tbl, FinanceLoanItem(property_id, Head(loans),
                                           Uuid(n + 1), Uuid(n + 2), now)),
             property_id, Tail(loans), n + 2, now)

update_property_finance(tbl, property_id, event, n, now) ==
    LET owner_id == get_authenticated_user_id(event)
        key == PropertyKey(property_id)
    IN  IF ~Truthy(owner_id)
        THEN Result(401, [error |-> "Authentication required"], tbl, 0, 0, 0)
        ELSE IF ~HasItem(tbl, key)
        THEN Result(404, [error |-> "Property not found"], tbl, 1, 0, 0)
        ELSE IF Get(tbl[key], "owner_id", None) # owner_id
        THEN Result(403, [error |-> "Access denied - property not owned by user"],
                    tbl, 1, 0, 0)
        ELSE IF ~BodyParses(event)
        THEN Result(500, [error |-> "Failed to update finance data"], tbl, 1, 0, 0)
        ELSE
        LET data == json_loads(event)
            purchase_info == Get(data, "purchaseInfo", EmptyObj)
            item0 == [pk |-> Str("PROPERTY#" \o property_id),
                      sk |-> Str("FINANCE"),
                      property_id |-> Str(property_id),
                      ownership_type |-> Get(data, "ownershipType", Str("individual")),
                      ownership_status |-> Get(data, "ownershipStatus", Str("owned")),
                      updated_at |-> Iso(now)]
            item == IF DOMAIN purchase_info = {} THEN item0
                    ELSE [purchase_price |-> Get(purchase_info, "purchasePrice", IntV(0))]
                         @@ item0
            loans == Get(data, "loans", <<>>)
            new == PutFinanceLoans(put_item(tbl, item), property_id, loans, n, now)
        IN  IF HasFloat(item)
            THEN Result(500, [error |-> "Failed to update finance data"], tbl, 1, 0, 0)
            ELSE IF \E i \in 1..Len(loans) :
                        HasFloat(FinanceLoanItem(property_id, loans[i], "", "", now))
            THEN Result(500, [error |-> "Failed to update finance data"], new,
                        1, 1 + Len(loans), 2 * Len(loans))
            ELSE Result(200, [finance |-> format_finance_data(new, item)], new,
                        2, 1 + Len(loans), 2 * Len(loans))

\* the item add_property_loan builds from the parsed body
add_property_loan_item(property_id, data, uuid, now) ==
    [pk |-> Str("PROPERTY#" \o property_id),
     sk |-> Str("LOAN#" \o uuid),
     property_id |-> Str(property_id),
     loan_id |-> Str(uuid),
     lender |-> Get(data, "lender", Str("")),
     original_amount |-> Get(data, "originalAmount", IntV(0)),
     created_at |-> Iso(now),
     updated_at |-> Iso(now)]

add_property_loan(tbl, property_id, event, uuid, now) ==
    IF ~BodyParses(event)
    THEN Result(500, [error |-> "Failed to add loan"], tbl, 0, 0, 0)
    ELSE
    LET item == add_property_loan_item(property_id, json_loads(event), uuid, now)
    IN  IF HasFloat(item)
        THEN Result(500, [error |-> "Failed to add loan"], tbl, 0, 0, 1)
        ELSE Result(201, [loan |-> format_loan_data(item)], put_item(tbl, item),
                    0, 1, 1)

\* the item update_property_loan builds from the parsed body
update_property_loan_item(property_id, loan_id, data, now) ==
    [pk |-> Str("PROPERTY#" \o property_id),
     sk |-> Str("LOAN#" \o loan_id),
     property_id |-> Str(property_id),
     loan_id |-> Str(loan_id),
     lender |-> Get(data, "lender", Str("")),
     original_amount |-> Get(data, "originalAmount", IntV(0)),
     updated_at |-> Iso(now)]

update_property_loan(tbl, property_id, loan_id, event, now) ==
    IF ~BodyParses(event)
    THEN Result(500, [error |-> "Failed to update loan"], tbl, 0, 0, 0)
    ELSE
    LET item == update_property_loan_item(property_id, loan_id, json_loads(event), now)
    IN  IF HasFloat(item)
        THEN Result(500, [error |-> "Failed to update loan"], tbl, 0, 0, 0)
        ELSE Result(200, [loan |-> format_loan_data(item)], put_item(tbl, item),
                    0, 1, 0)

delete_property_loan(tbl, property_id, loan_id) ==
    Result(200, [message |-> "Loan deleted successfully"],
           delete_item(tbl, LoanKey(property_id, loan_id)), 0, 1, 0)

---------------------------------------------------------------------------
(* Listing and dashboard *)

\* table.query(IndexName='gsi1', gsi1pk = 'OWNER#<owner_id>'): the items
query_gsi1(tbl, owner_id) ==
    {tbl[k] : k \in {q \in DOMAIN tbl :
                        Get(tbl[q], "gsi1pk", None) = Str("OWNER#" \o owner_id.s)}}
\* table.scan(): every item
scan(tbl) == {tbl[k] : k \in DOMAIN tbl}

\* the handlers' filter over the items the query or the scan returned
OwnedProperties(items, owner_id) ==
    {i \in items : /\ StartsWith(Get(i, "pk", Str("")).s, "PROPERTY#")
                   /\ Get(i, "sk", None) = Str("METADATA")
                   /\ Get(i, "owner_id", None) = owner_id}

\* gsi_ok: whether the gsi1 query answers (otherwise it raises and the
\* handler scans)
list_properties(tbl, event, gsi_ok) ==
    LET owner_id == get_authenticated_user_id(event)
    IN  IF ~Truthy(owner_id)
        THEN Result(401, [error |-> "Authentication required"], tbl, 0, 0, 0)
        ELSE
        LET all_items == IF gsi_ok THEN query_gsi1(tbl, owner_id) ELSE scan(tbl)
            properties == {format_property(i) : i \in OwnedProperties(all_items, owner_id)}
        IN  Result(200, [properties |-> properties], tbl,
                   IF gsi_ok THEN 1 ELSE 2, 0, 0)

get_dashboard_stats(tbl, event, gsi_ok) ==
    LET owner_id == get_authenticated_user_id(event)
    IN  IF ~Truthy(owner_id)
        THEN Result(401, [error |-> "Authentication required"], tbl, 0, 0, 0)
        ELSE
        LET items == IF gsi_ok THEN query_gsi1(tbl, owner_id)
                     ELSE {i \in scan(tbl) :
                              /\ StartsWith(i.pk.s, "PROPERTY#")
                              /\ Get(i, "owner_id", None) = owner_id}
            owned == OwnedProperties(items, owner_id)
            \* len([p for p in user_properties if p.get('status') == status]),
            \* user_properties holding format_property(i) for each i of owned
            WithStatus(status) ==
                Cardinality({i \in owned : format_property(i).status = Str(status)})
        IN  Result(200,
                   [total_properties |-> Cardinality(owned),
                    active_properties |-> WithStatus("active"),
                    vacant_properties |-> WithStatus("vacant"),
                    my_properties |-> Cardinality(owned),
                    maintenance_requests |-> 0,
                    rent_collected_this_month |-> 0],
                   tbl, IF gsi_ok THEN 1 ELSE 2, 0, 0)

---------------------------------------------------------------------------
(* Profile handlers *)

\* table.scan(FilterExpression='email = :email')['Items']
scan_email(tbl, user_email) ==
    {i \in scan(tbl) : Get(i, "email", None) = user_email}

format_profile(item) ==
    [user_id |-> Get(item, "user_id", None),
     email |-> Get(item, "email", None),
     firstName |-> Get(item, "first_name", Str("")),
     updated_at |-> Get(item, "updated_at", None)]

\* event.get('queryStringParameters', {}).get('email')
QueryEmail(event) == Get(Get(event, "queryStringParameters", EmptyObj), "email", None)

get_profile(tbl, event) ==
    LET claims == Get(Get(Get(event, "requestContext", EmptyObj),
                          "authorizer", EmptyObj), "claims", EmptyObj)
        user_email == IF Truthy(Get(claims, "email", None)) THEN claims.email
                      ELSE QueryEmail(event)
    IN  IF ~Truthy(user_email)
        THEN Result(401, [message |-> "Authentication required"], tbl, 0, 0, 0)
        ELSE IF scan_email(tbl, user_email) = {}
        THEN Result(404, [message |-> "Profile not found"], tbl, 1, 0, 0)
        ELSE Result(200,
                    [profile |-> format_profile(
                                     CHOOSE i \in scan_email(tbl, user_email) : TRUE)],
                    tbl, 1, 0, 0)

\* event.get('queryStringParameters', {}) is None: .get('email') raises
QueryRaises(event) == Get(event, "queryStringParameters", EmptyObj) = None

update_profile(tbl, event, uuid, now) ==
    IF "body" \in DOMAIN event /\ ~BodyParses(event)
    THEN Result(500, [message |-> "Profile update error occurred"], tbl, 0, 0, 0)
    ELSE
    LET body == IF "body" \in DOMAIN event THEN json_loads(event) ELSE EmptyObj
        user_email == Or(Get(body, "email", None), QueryEmail(event))
    IN  IF ~Truthy(Get(body, "email", None)) /\ QueryRaises(event)
        THEN Result(500, [message |-> "Profile update error occurred"], tbl, 0, 0, 0)
        ELSE IF ~Truthy(user_email)
        THEN Result(401, [message |-> "Authentication required"], tbl, 0, 0, 0)
        ELSE IF scan_email(tbl, user_email) = {}
        THEN
            LET profile_data ==
                    [pk |-> Str("USER#" \o uuid),
                     sk |-> Str("PROFILE"),
                     user_id |-> Str(uuid),
                     email |-> user_email,
                     first_name |-> Get(body, "firstName", Str("")),
                     created_at |-> Iso(now),
                     updated_at |-> Iso(now),
                     status |-> Str("active")]
            IN  Result(201, [profile |-> format_profile(profile_data)],
                       put_item(tbl, profile_data), 1, 1, 1)
        ELSE
            LET existing_profile == CHOOSE i \in scan_email(tbl, user_email) : TRUE
                key == KeyOf(existing_profile)
                new == update_item(tbl, key,
                                   [first_name |-> Get(body, "firstName", Str("")),
                                    updated_at |-> Iso(now)])
            IN  Result(200, [profile |-> format_profile(new[key])], new, 1, 1, 0)

---------------------------------------------------------------------------
(* lambda_handler.  A path is carried as path.split('/'), its sequence of  *)
(* segments: "/api/properties/p1" is <<"", "api", "properties", "p1">>.    *)

CorsHeaders ==
    ("Access-Control-Allow-Origin" :> "*")
    @@ ("Access-Control-Allow-Headers" :>
            "Content-Type,Authorization,X-Amz-Date,X-Api-Key,X-Amz-Security-Token")
    @@ ("Access-Control-Allow-Methods" :> "GET,POST,PUT,DELETE,OPTIONS")

\* str(e) of the exception a table call raises when the store is down
StoreError == "store unavailable"

\* path.startswith('/api/properties/')
UnderProperties(path) ==
    Len(path) >= 4 /\ SubSeq(path, 1, 3) = <<"", "api", "properties">>
\* ('/' + word) in path
HasAfterSlash(path, word) == \E i \in 2..Len(path) : StartsWith(path[i], word)
\* ('/' + word + '/') in path
HasSegment(path, word) == \E i \in 2..(Len(path) - 1) : path[i] = word
\* path.split('/')[-k]
FromEnd(path, k) == path[Len(path) + 1 - k]

To(handler, property_id, loan_id) ==
    [handler |-> handler, property_id |-> property_id, loan_id |-> loan_id]

\* the if / elif chain of lambda_handler
Route(method, path) ==
    IF path = <<"", "api", "auth", "login">> /\ method = "POST"
    THEN To("handle_login", "", "")
    ELSE IF path = <<"", "api", "auth", "register">> /\ method = "POST"
    THEN To("handle_register", "", "")
    ELSE IF path = <<"", "api", "profile">> /\ method = "GET"
    THEN To("get_profile", "", "")
    ELSE IF path = <<"", "api", "profile">> /\ method = "PUT"
    THEN To("update_profile", "", "")
    ELSE IF path = <<"", "api", "properties">> /\ method = "GET"
    THEN To("list_properties", "", "")
    ELSE IF path = <<"", "api", "properties">> /\ method = "POST"
    THEN To("create_property", "", "")
    ELSE IF UnderProperties(path) /\ HasAfterSlash(path, "finance") /\ method = "GET"
    THEN To("get_property_finance", FromEnd(path, 2), "")
    ELSE IF UnderProperties(path) /\ HasAfterSlash(path, "finance") /\ method = "PUT"
    THEN To("update_property_finance", FromEnd(path, 2), "")
    ELSE IF UnderProperties(path) /\ HasAfterSlash(path, "loans") /\ method = "POST"
    THEN To("add_property_loan", FromEnd(path, 2), "")
    ELSE IF UnderProperties(path) /\ HasSegment(path, "loans") /\ method = "PUT"
    THEN To("update_property_loan", FromEnd(path, 3), FromEnd(path, 1))
    ELSE IF UnderProperties(path) /\ HasSegment(path, "loans") /\ method = "DELETE"
    THEN To("delete_property_loan", FromEnd(path, 3), FromEnd(path, 1))
    ELSE IF UnderProperties(path) /\ method = "GET"
    THEN To("get_property", FromEnd(path, 1), "")
    ELSE IF UnderProperties(path) /\ method = "PUT"
    THEN To("update_property", FromEnd(path, 1), "")
    ELSE IF UnderProperties(path) /\ method = "DELETE"
    THEN To("delete_property", FromEnd(path, 1), "")
    ELSE IF path = <<"", "api", "dashboard">> /\ method = "GET"
    THEN To("get_dashboard_stats", "", "")
    ELSE IF path = <<"", "api", "health">> /\ method = "GET"
    THEN To("get_health_status", "", "")
    ELSE To("not_found", "", "")

\* a health check that never looks at the outcome of the probe
get_health_status_always_healthy(tbl, store_ok, now) ==
    Result(200, [status |-> "healthy", timestamp |-> Iso(now),
                 version |-> "1.0.0",
                 services |-> [database |-> "healthy", storage |-> "healthy"]],
           tbl, 1, 0, 0)

\* store_ok: whether table.scan(Limit=1) answers
get_health_status(tbl, store_ok, now) ==
    IF store_ok
    THEN Result(200, [status |-> "healthy", timestamp |-> Iso(now),
                      version |-> "1.0.0",
                      services |-> [database |-> "healthy", storage |-> "healthy"]],
                tbl, 1, 0, 0)
    ELSE Result(503, [status |-> "unhealthy", timestamp |-> Iso(now),
                      error |-> StoreError], tbl, 1, 0, 0)

\* the handlers that call the table outside any try: their store exception
\* reaches lambda_handler's except
Unguarded == {"get_property", "delete_property", "get_dashboard_stats"}

\* the body of the 500 a handler's own except clause returns
HandlerFailure(handler) ==
    CASE handler = "list_properties" -> [error |-> "Internal server error"]
      [] handler = "create_property" -> [error |-> "Failed to create property"]
      [] handler = "update_property" -> [error |-> "Internal server error"]
      [] handler = "get_property_finance" -> [error |-> "Failed to get finance data"]
      [] handler = "update_property_finance" -> [error |-> "Failed to update finance data"]
      [] handler = "add_property_loan" -> [error |-> "Failed to add loan"]
      [] handler = "update_property_loan" -> [error |-> "Failed to update loan"]
      [] handler = "delete_property_loan" -> [error |-> "Failed to delete loan"]
      [] handler = "get_profile" -> [message |-> "Failed to retrieve profile"]
      [] handler = "update_profile" -> [message |-> "Failed to update profile"]

\* the routed handler's result while the store answers
Dispatch(tbl, route, event, n, now, gsi_ok) ==
    LET h == route.handler
        property_id == route.property_id
        loan_id == route.loan_id
    IN  CASE h = "get_profile" -> get_profile(tbl, event)
          [] h = "update_profile" -> update_profile(tbl, event, Uuid(n + 1), now)
          [] h = "list_properties" -> list_properties(tbl, event, gsi_ok)
          [] h = "create_property" -> create_property(tbl, event, Uuid(n + 1), now)
          [] h = "get_property_finance" -> get_property_finance(tbl, property_id, event)
          [] h = "update_property_finance" ->
                 update_property_finance(tbl, property_id, event, n, now)
          [] h = "add_property_loan" ->
                 add_property_loan(tbl, property_id, event, Uuid(n + 1), now)
          [] h = "update_property_loan" ->
                 update_property_loan(tbl, property_id, loan_id, event, now)
          [] h = "delete_property_loan" -> delete_property_loan(tbl, property_id, loan_id)
          [] h = "get_property" -> get_property(tbl, property_id, event)
          [] h = "update_property" -> update_property(tbl, property_id, event, now)
          [] h = "delete_property" -> delete_property(tbl, property_id)
          [] h = "get_dashboard_stats" -> get_dashboard_stats(tbl, event, gsi_ok)
          [] h = "get_health_status" -> get_health_status(tbl, TRUE, now)

\* the routed handler's result; with the store down (store_ok false) the
\* first table call it makes raises (the scan after the gsi1 query too)
Routed(tbl, route, event, n, now, gsi_ok, store_ok) ==
    LET r == Dispatch(tbl, route, event, n, now, gsi_ok)
        h == route.handler
    IN  IF store_ok \/ r.reads + r.writes = 0 THEN r
        ELSE IF h = "get_health_status" THEN get_health_status(tbl, FALSE, now)
        ELSE IF h \in Unguarded
        THEN Result(500, [error |-> StoreError], tbl,
                    IF h = "get_dashboard_stats" THEN 2 ELSE 1, 0, 0)
        ELSE Result(500, HandlerFailure(h), tbl,
                    IF h = "list_properties" THEN 2 ELSE 1, 0, 0)

\* an envelope without the CORS headers
Envelope_bare(r, route) ==
    [statusCode |-> r.statusCode, headers |-> EmptyObj, body |-> r.body,
     tbl |-> r.tbl, reads |-> r.reads, writes |-> r.writes,
     uuidCalls |-> r.uuidCalls, route |-> route]

\* what lambda_handler returns, with the route it took
Envelope(r, route) ==
    [statusCode |-> r.statusCode, headers |-> CorsHeaders, body |-> r.body,
     tbl |-> r.tbl, reads |-> r.reads, writes |-> r.writes,
     uuidCalls |-> r.uuidCalls, route |-> route]

\* lambda_handler without the preflight branch
lambda_handler_no_preflight(tbl, event, n, now, gsi_ok, store_ok) ==
    IF event = None \/ "httpMethod" \notin DOMAIN event \/ "path" \notin DOMAIN event
    THEN Envelope(Result(500, [error |-> "error"], tbl, 0, 0, 0), To("none", "", ""))
    ELSE
    LET route == Route(event.httpMethod, event.path)
    IN  IF route.handler = "not_found"
        THEN Envelope(Result(404, [error |-> "Not found"], tbl, 0, 0, 0), route)
        ELSE Envelope(Routed(tbl, route, event, n, now, gsi_ok, store_ok), route)

lambda_handler(tbl, event, n, now, gsi_ok, store_ok) ==
    IF event = None
    THEN Envelope(Result(500, [error |-> "'NoneType' object is not subscriptable"],
                         tbl, 0, 0, 0), To("none", "", ""))
    ELSE IF "httpMethod" \notin DOMAIN event
    THEN Envelope(Result(500, [error |-> "'httpMethod'"], tbl, 0, 0, 0),
                  To("none", "", ""))
    ELSE IF "path" \notin DOMAIN event
    THEN Envelope(Result(500, [error |-> "'path'"], tbl, 0, 0, 0), To("none", "", ""))
    ELSE IF event.httpMethod = "OPTIONS"
    THEN Envelope(Result(200, Str(""), tbl, 0, 0, 0), To("none", "", ""))
    ELSE
    LET route == Route(event.httpMethod, event.path)
    IN  IF route.handler = "not_found"
        THEN Envelope(Result(404, [error |-> "Not found"], tbl, 0, 0, 0), route)
        ELSE Envelope(Routed(tbl, route, event, n, now, gsi_ok, store_ok), route)

---------------------------------------------------------------------------
(* Inputs *)

\* the ids a request path can name: every uuid a run of n uuid4() calls issues
PathIds(n) == {Uuid(i) : i \in 1..n}

AsUser(u) == [Authorization |-> Bearer("tok-" \o u)]
\* no header, or a verified bearer token
PlainHeaders == {EmptyObj} \cup {AsUser(u) : u \in Users}

Bodies(objects) == {JsonBody(o) : o \in objects} \cup {Garbage}
Events(headers, bodies) == {[headers |-> h, body |-> b] : h \in headers, b \in bodies}
NoBodyEvents(headers) == {[headers |-> h] : h \in headers}

UnitA == [title |-> Str("Unit A"), price |-> IntV(1200)]
\* create payloads: a valid one, one without a title
LeanCreateObjects == {UnitA, [price |-> IntV(1200)]}
\* create payloads: every combination of title, price and status options
TitleOpts == {EmptyObj, [title |-> Str("")], [title |-> Str("Unit A")]}
PriceOpts == {EmptyObj, [price |-> IntV(1200)], [price |-> FloatV(1200, 5)],
              [price |-> IntV(0)], [price |-> IntV(-1)], [price |-> FloatV(-1, 5)],
              [price |-> None], [rent |-> IntV(900)]}
CreateObjects == {t @@ q : t \in TitleOpts, q \in PriceOpts}
                 \cup {UnitA @@ [status |-> Str("vacant")]}
\* update payloads that leave the owner alone
PatchObjects == {[title |-> Str("Unit B")], [price |-> FloatV(900, 5)]}
UpdateObjects == {[title |-> Str("Unit B"), owner_id |-> Str("U2"), id |-> Str("other")]}
FinanceObjects == {[ownershipType |-> Str("llc")]}
LoanObjects == {[lender |-> Str("Bank"), originalAmount |-> IntV(1000)],
                [lender |-> Str("Bank"), originalAmount |-> FloatV(1000, 5)]}
\* finance payloads that carry one loan, with an id of the caller's or without
FinanceLoanObjects ==
    {[ownershipType |-> Str("llc"),
      loans |-> <<[id |-> Str("L1"), lender |-> Str("Bank")]>>],
     [loans |-> <<[lender |-> Str("Bank")]>>]}
\* loan update payloads that name one field, or none
LoanPatchObjects == {[lender |-> Str("Credit Union")],
                     [originalAmount |-> IntV(2000)], EmptyObj}

\* items a table may hold: the empty item, and items whose fields are
\* missing, well typed or wrongly typed
Field(name, values) == {EmptyObj} \cup {name :> v : v \in values}
PropertyItems ==
    {a @@ b @@ c @@ d :
        a \in Field("id", {Str("p1")}),
        b \in Field("title", {Str("Unit A"), IntV(7)}),
        c \in Field("bedrooms", {DecV(2, 0), Str("2"), Str("two"), None}),
        d \in Field("price", {DecV(1200, 5), Str("lots")})}
LoanItems ==
    {a @@ b @@ c :
        a \in Field("loan_id", {Str("L1")}),
        b \in Field("term_years", {DecV(30, 0), Str("thirty"), None}),
        c \in Field("original_amount", {DecV(1000, 5), Str("lots")})}
FinanceItems ==
    {a @@ b @@ c :
        a \in Field("property_id", {Str(Uuid(1))}),
        b \in Field("ownership_type", {Str("llc"), IntV(7)}),
        c \in Field("purchase_price", {DecV(1000, 5), Str("lots")})}

\* /api/profile requests: the query string, the authorizer claims and the body
QueryOpts == {EmptyObj, [queryStringParameters |-> None],
              [queryStringParameters |-> [email |-> Str("a@x")]]}
ClaimsOpts == {EmptyObj,
               [requestContext |-> [authorizer |-> [claims |-> [email |-> Str("b@x")]]]]}
ProfileBodyOpts == {EmptyObj, [body |-> Garbage],
                    [body |-> JsonBody([firstName |-> Str("Eve")])],
                    [body |-> JsonBody([email |-> Str("b@x"), firstName |-> Str("Eve")])]}
\* requests to lambda_handler: every method on every path shape, for the
\* first id a run issues and an id that begins with the text "finance"
Methods == {"GET", "POST", "PUT", "DELETE", "PATCH", "OPTIONS"}
RouterIds == {Uuid(1), "finance-1"}
Paths ==
    {<<"", "api", "properties">>, <<"", "api", "profile">>,
     <<"", "api", "dashboard">>, <<"", "api", "health">>, <<"", "api", "unknown">>}
    \cup {<<"", "api", "properties", id>> : id \in RouterIds}
    \cup {<<"", "api", "properties", Uuid(1), "finance">>,
          <<"", "api", "properties", Uuid(1), "loans">>,
          <<"", "api", "properties", Uuid(1), "loans", "L1">>}
\* a body the handlers of the path accept
BodyFor(path) ==
    IF HasAfterSlash(path, "loans")
    THEN JsonBody([lender |-> Str("Bank"), originalAmount |-> IntV(1000)])
    ELSE IF path = <<"", "api", "profile">>
    THEN JsonBody([email |-> Str("a@x"), firstName |-> Str("Eve")])
    ELSE JsonBody(UnitA)
RouterEvents ==
    {[httpMethod |-> m, path |-> q, headers |-> h, body |-> BodyFor(q)] :
        m \in Methods, q \in Paths, h \in {EmptyObj, AsUser("U1")}}
    \cup {None, EmptyObj, [httpMethod |-> "GET"], [path |-> <<"", "api", "health">>]}

GetProfileEvents ==
    {[headers |-> h] @@ q @@ c : h \in PlainHeaders, q \in QueryOpts, c \in ClaimsOpts}
UpdateProfileEvents ==
    {[headers |-> h] @@ q @@ b : h \in PlainHeaders, q \in QueryOpts, b \in ProfileBodyOpts}

---------------------------------------------------------------------------
(* The scenario of the spec's section 8: create {title: "Unit A", price:   *)
(* 1200} as U1, get as U2, get as U1, delete as U1, get as U1.  scen       *)
(* follows a run of requests for as long as it is this sequence and keeps  *)
(* what each step answered.                                                *)

ScenCreate == [headers |-> AsUser("U1"), body |-> JsonBody(UnitA)]
ScenOps == <<"create_property", "get_property", "get_property",
             "delete_property", "get_property">>
ScenUsers == <<"U1", "U2", "U1", "U1", "U1">>
NoScen == [step |-> 0, pid |-> "", seen |-> <<>>]

ScenarioStep(sc, op, property_id, event, r) ==
    LET obs == [statusCode |-> r.statusCode, body |-> r.body]
    IN  IF op = "create_property" /\ event = ScenCreate
        THEN [step |-> 1,
              pid |-> IF r.statusCode = 201 THEN r.body.id.s ELSE "",
              seen |-> <<obs>>]
        ELSE IF /\ sc.step \in 1..4
                /\ op = ScenOps[sc.step + 1]
                /\ property_id = sc.pid
                /\ Get(event, "headers", EmptyObj) = AsUser(ScenUsers[sc.step + 1])
        THEN [step |-> sc.step + 1, pid |-> sc.pid, seen |-> Append(sc.seen, obs)]
        ELSE NoScen

\* fresh remembers the last successful create_property request and the id it
\* answered, for as long as only get_property requests follow it
NoFresh == [pid |-> "", event |-> EmptyObj]

FreshStep(fr, op, event, r) ==
    IF op = "create_property" /\ r.statusCode = 201
    THEN [pid |-> r.body.id.s, event |-> event]
    ELSE IF op = "get_property" THEN fr
    ELSE NoFresh

---------------------------------------------------------------------------
(* Registration and login: the Cognito user pool and the profile item *)

\* a JSON object as a value
Map(m) == [t |-> "map", m |-> m]
\* whether a value holds a Python float, itself or as a member
ContainsFloat(v) ==
    \/ v.t = "float"
    \/ v.t = "map" /\ \E a \in DOMAIN v.m : v.m[a].t = "float"

\* a handler's result with the user pool it leaves
AuthResult(statusCode, body, tbl, users, uuidCalls) ==
    [statusCode |-> statusCode, body |-> body, tbl |-> tbl, pool |-> users,
     uuidCalls |-> uuidCalls]

\* json.loads(event.get('body', '{}'))
AuthBody(event) == IF "body" \in DOMAIN event THEN json_loads(event) ELSE EmptyObj
AuthBodyParses(event) == "body" \notin DOMAIN event \/ BodyParses(event)

\* cognito_client.admin_create_user(..., TemporaryPassword=password): the
\* user exists with a temporary password (FORCE_CHANGE_PASSWORD)
admin_create_user(users, username, password, user_attributes) ==
    (username :> [password |-> password, permanent |-> FALSE,
                  attributes |-> user_attributes]) @@ users
\* cognito_client.admin_set_user_password(..., Permanent=True)
admin_set_user_password(users, username, password) ==
    [users EXCEPT ![username].password = password, ![username].permanent = TRUE]
\* registration's phone number in E.164 form, for digits-only numbers
E164(phone) == Str("+1" \o phone.s)

\* the Cognito attributes handle_register builds from the request
register_user_attributes(email, profile) ==
    LET opt(name, key, value) ==
            IF Truthy(Get(profile, key, None)) THEN (name :> value) ELSE EmptyObj
    IN  [email |-> email, email_verified |-> Str("true")]
        @@ opt("given_name", "firstName", Get(profile, "firstName", None))
        @@ opt("family_name", "lastName", Get(profile, "lastName", None))
        @@ opt("phone_number", "phone", E164(Get(profile, "phone", Str(""))))

\* the profile item handle_register writes
register_profile_data(user_id, username, email, profile, now) ==
    [pk |-> Str("USER#" \o user_id), sk |-> Str("PROFILE"),
     user_id |-> Str(user_id), cognito_username |-> username, email |-> email,
     first_name |-> Get(profile, "firstName", Str("")),
     last_name |-> Get(profile, "lastName", Str("")),
     phone |-> Get(profile, "phone", Str("")),
     date_of_birth |-> Get(profile, "dateOfBirth", Str("")),
     address |-> Get(profile, "address", Map(EmptyObj)),
     company |-> Get(profile, "company", Str("")),
     created_at |-> Iso(now), updated_at |-> Iso(now), status |-> Str("active")]

RegistrationFailed == [success |-> FALSE, message |-> "Registration failed"]

handle_register(tbl, users, event, user_id, now, set_ok, store_ok) ==
    LET failure == AuthResult(500, [success |-> FALSE,
                                   message |-> "Registration error occurred"],
                              tbl, users, 0)
    IN  IF ~AuthBodyParses(event) THEN failure
        ELSE
        LET body == AuthBody(event)
            username == Get(body, "username", Str(""))
            password == Get(body, "password", Str(""))
            email == Get(body, "email", Str(""))
            profile_value == Get(body, "profile", Map(EmptyObj))
        IN  IF \E v \in {username, password, email} : v.t # "str" THEN failure
            ELSE IF ~Truthy(username) \/ ~Truthy(password) \/ ~Truthy(email)
            THEN AuthResult(400, [success |-> FALSE,
                     message |-> "Username, password, and email are required"],
                     tbl, users, 0)
            \* profile.get of a non-object raises inside the inner try
            ELSE IF profile_value.t # "map"
            THEN AuthResult(400, RegistrationFailed, tbl, users, 0)
            ELSE
            LET profile == profile_value.m
                named == {Get(profile, k, Str("")) : k \in {"firstName", "lastName", "phone"}}
            IN  \* a non-string attribute value: phone.replace raises, or
                \* botocore's parameter validation refuses the call
                IF \E v \in named : Truthy(v) /\ v.t # "str"
                THEN AuthResult(400, RegistrationFailed, tbl, users, 0)
                ELSE IF username.s \in DOMAIN users
                THEN AuthResult(409, [success |-> FALSE,
                                      message |-> "Username already exists"],
                                tbl, users, 0)
                ELSE
                LET created == admin_create_user(users, username.s, password.s,
                                   register_user_attributes(email, profile))
                    permanent == admin_set_user_password(created, username.s, password.s)
                    profile_data == register_profile_data(user_id, username, email,
                                                          profile, now)
                IN  IF ~set_ok
                    THEN AuthResult(400, RegistrationFailed, tbl, created, 0)
                    ELSE IF ~store_ok
                            \/ \E a \in DOMAIN profile_data : ContainsFloat(profile_data[a])
                    THEN AuthResult(400, RegistrationFailed, tbl, permanent, 1)
                    ELSE AuthResult(201,
                             [success |-> TRUE,
                              message |-> "User registered successfully",
                              user |-> [user_id |-> Str(user_id), username |-> username,
                                        email |-> email,
                                        first_name |-> profile_data.first_name,
                                        last_name |-> profile_data.last_name]],
                             put_item(tbl, profile_data), permanent, 1)

\* the key handle_login reads the profile from
LoginProfileKey(username) == Key("USER#" \o username, "PROFILE")

handle_login(tbl, users, event, store_ok) ==
    LET failure == AuthResult(500, [success |-> FALSE,
                                   message |-> "Login error occurred"], tbl, users, 0)
        denied(message) == AuthResult(401, [success |-> FALSE, message |-> message],
                                      tbl, users, 0)
    IN  IF ~AuthBodyParses(event) THEN failure
        ELSE
        LET body == AuthBody(event)
            username == Get(body, "username", Str(""))
            password == Get(body, "password", Str(""))
        IN  IF username.t # "str" \/ password.t # "str" THEN failure
            ELSE IF ~Truthy(username) \/ ~Truthy(password)
            THEN AuthResult(400, [success |-> FALSE,
                                  message |-> "Username and password are required"],
                            tbl, users, 0)
            ELSE IF username.s \notin DOMAIN users THEN denied("User not found")
            ELSE IF users[username.s].password # password.s
            THEN denied("Invalid username or password")
            \* a temporary password: admin_initiate_auth answers with the
            \* NEW_PASSWORD_REQUIRED challenge, without AuthenticationResult
            ELSE IF ~users[username.s].permanent THEN denied("Authentication failed")
            ELSE
            LET key == LoginProfileKey(username.s)
                profile_data == IF store_ok /\ key \in DOMAIN tbl THEN tbl[key]
                                ELSE EmptyObj
                user == [username |-> username,
                         email |-> Get(users[username.s].attributes, "email", Str("")),
                         firstName |-> Get(profile_data, "first_name", Str("")),
                         lastName |-> Get(profile_data, "last_name", Str("")),
                         phone |-> Get(profile_data, "phone", Str("")),
                         company |-> Get(profile_data, "company", Str(""))]
            IN  \* json.dumps raises on a Decimal
                IF \E k \in DOMAIN user : user[k].t = "decimal"
                THEN denied("Authentication failed")
                ELSE AuthResult(200, [success |-> TRUE, message |-> "Login successful",
                                      user |-> user], tbl, users, 0)

---------------------------------------------------------------------------
(* Actions: one per route of lambda_handler.  Each takes the sets its      *)
(* request is drawn from and the number of uuid4() calls a run may make.   *)

Init ==
    /\ table = EmptyObj
    /\ uuids = 0
    /\ clock = 0
    /\ before = EmptyObj
    /\ last = [op |-> "none"]
    /\ createdBy = EmptyObj
    /\ scen = NoScen
    /\ fresh = NoFresh
    /\ inflight = {}
    /\ pool = EmptyObj

\* the request (op, property_id, loan_id, event) is answered with result r
Handle(op, property_id, loan_id, event, r, cap) ==
    /\ uuids + r.uuidCalls <= cap
    /\ table' = r.tbl
    /\ uuids' = uuids + r.uuidCalls
    /\ before' = table
    /\ last' = [op |-> op, property_id |-> property_id, loan_id |-> loan_id,
                event |-> event, statusCode |-> r.statusCode, body |-> r.body,
                reads |-> r.reads, writes |-> r.writes, uuid |-> Uuid(uuids + 1)]
    /\ createdBy' = IF op = "create_property" /\ r.statusCode = 201
                    THEN (r.body.id.s :> r.body.owner_id) @@ createdBy
                    ELSE createdBy
    /\ scen' = ScenarioStep(scen, op, property_id, event, r)
    /\ fresh' = FreshStep(fresh, op, event, r)
    /\ UNCHANGED <<clock, inflight, pool>>

\* POST /api/properties
CreateProperty(events, cap) ==
    \E event \in events :
        Handle("create_property", "", "", event,
               create_property(table, event, Uuid(uuids + 1), clock), cap)

\* GET /api/properties/{id}
GetProperty(events, cap) ==
    \E property_id \in PathIds(cap), event \in events :
        Handle("get_property", property_id, "", event,
               get_property(table, property_id, event), cap)

\* PUT /api/properties/{id}
UpdateProperty(events, cap) ==
    \E property_id \in PathIds(cap), event \in events :
        Handle("update_property", property_id, "", event,
               update_property(table, property_id, event, clock), cap)

\* DELETE /api/properties/{id}
DeleteProperty(events, cap) ==
    \E property_id \in PathIds(cap), event \in events :
        Handle("delete_property", property_id, "", event,
               delete_property(table, property_id), cap)

\* GET /api/properties
ListProperties(events, cap) ==
    \E event \in events, gsi_ok \in BOOLEAN :
        Handle("list_properties", "", "", event,
               list_properties(table, event, gsi_ok), cap)

\* GET /api/dashboard
GetDashboardStats(events, cap) ==
    \E event \in events, gsi_ok \in BOOLEAN :
        Handle("get_dashboard_stats", "", "", event,
               get_dashboard_stats(table, event, gsi_ok), cap)

\* GET /api/properties/{id}/finance
GetPropertyFinance(events, cap) ==
    \E property_id \in PathIds(cap), event \in events :
        Handle("get_property_finance", property_id, "", event,
               get_property_finance(table, property_id, event), cap)

\* PUT /api/properties/{id}/finance
UpdatePropertyFinance(events, cap) ==
    \E property_id \in PathIds(cap), event \in events :
        Handle("update_property_finance", property_id, "", event,
               update_property_finance(table, property_id, event, uuids, clock), cap)

\* POST /api/properties/{id}/loans
AddPropertyLoan(events, cap) ==
    \E property_id \in PathIds(cap), event \in events :
        Handle("add_property_loan", property_id, "", event,
               add_property_loan(table, property_id, event, Uuid(uuids + 1), clock), cap)

\* PUT /api/properties/{id}/loans/{loanId}
UpdatePropertyLoan(events, cap) ==
    \E property_id \in PathIds(cap), loan_id \in PathIds(cap), event \in events :
        Handle("update_property_loan", property_id, loan_id, event,
               update_property_loan(table, property_id, loan_id, event, clock), cap)

\* DELETE /api/properties/{id}/loans/{loanId}
DeletePropertyLoan(events, cap) ==
    \E property_id \in PathIds(cap), loan_id \in PathIds(cap), event \in events :
        Handle("delete_property_loan", property_id, loan_id, event,
               delete_property_loan(table, property_id, loan_id), cap)

\* GET /api/profile
GetProfile(events, cap) ==
    \E event \in events :
        Handle("get_profile", "", "", event, get_profile(table, event), cap)

\* PUT /api/profile
UpdateProfile(events, cap) ==
    \E event \in events :
        Handle("update_profile", "", "", event,
               update_profile(table, event, Uuid(uuids + 1), clock), cap)

\* PUT /api/properties/{id}, up to its table.update_item: the request has
\* passed the authentication, the get_item and the ownership test
UpdatePropertyRead(events, cap) ==
    \E property_id \in PathIds(cap), event \in events :
        /\ Cardinality(inflight) < MaxInflight
        /\ update_property(table, property_id, event, clock).statusCode = 200
        /\ inflight' = inflight \cup
               {[property_id |-> property_id, event |-> event,
                 sets |-> update_property_sets(event, clock)]}
        /\ last' = [op |-> "get_item", property_id |-> property_id, event |-> event]
        /\ before' = table
        /\ UNCHANGED <<table, uuids, clock, createdBy, scen, fresh, pool>>

\* the table.update_item of a request in flight, and its response
UpdatePropertyWrite ==
    \E request \in inflight :
        LET key == PropertyKey(request.property_id)
            new == update_item(table, key, request.sets)
        IN  /\ inflight' = inflight \ {request}
            /\ table' = new
            /\ before' = table
            /\ last' = [op |-> "update_property",
                        property_id |-> request.property_id, loan_id |-> "",
                        event |-> request.event, statusCode |-> 200,
                        body |-> [property |-> format_property(new[key])],
                        reads |-> 1, writes |-> 1, uuid |-> Uuid(uuids + 1)]
            /\ UNCHANGED <<uuids, clock, createdBy, scen, fresh, pool>>

\* POST /api/auth/register; set_ok and store_ok say whether Cognito's
\* admin_set_user_password and the table answer
HandleRegister(events, cap) ==
    \E event \in events, set_ok \in BOOLEAN, store_ok \in BOOLEAN :
      \E r \in {handle_register(table, pool, event, Uuid(uuids + 1), clock,
                                set_ok, store_ok)} :
        /\ uuids + r.uuidCalls <= cap
        /\ table' = r.tbl
        /\ pool' = r.pool
        /\ uuids' = uuids + r.uuidCalls
        /\ before' = table
        /\ last' = [op |-> "handle_register", event |-> event,
                    statusCode |-> r.statusCode, body |-> r.body,
                    pool_before |-> pool, set_ok |-> set_ok, store_ok |-> store_ok]
        /\ UNCHANGED <<clock, createdBy, scen, fresh, inflight>>

\* POST /api/auth/login
HandleLogin(events) ==
    \E event \in events, store_ok \in BOOLEAN :
      \E r \in {handle_login(table, pool, event, store_ok)} :
        /\ last' = [op |-> "handle_login", event |-> event,
                    statusCode |-> r.statusCode, body |-> r.body,
                    pool_before |-> pool, store_ok |-> store_ok]
        /\ before' = table
        /\ UNCHANGED <<table, pool, uuids, clock, createdBy, scen, fresh, inflight>>

\* the table holds item under key, and nothing else
StoreItem(key, items) ==
    \E item \in items :
        /\ table' = (key :> item)
        /\ last' = [op |-> "put_item"]
        /\ UNCHANGED <<uuids, clock, before, createdBy, scen, fresh, inflight, pool>>

\* response.get('Item'): the item under key, or None
ItemAt(tbl, key) == IF HasItem(tbl, key) THEN tbl[key] ELSE None

\* a formatter is called on item and returns or raises out
Formatted(op, item, store_ok, out) ==
    /\ last' = [op |-> op, item |-> item, store_ok |-> store_ok, out |-> out]
    /\ UNCHANGED <<table, uuids, clock, before, createdBy, scen, fresh, inflight, pool>>

FormatProperty(key) ==
    Formatted("format_property", ItemAt(table, key), TRUE,
              format_property_outcome(ItemAt(table, key)))

FormatLoanData(key) ==
    Formatted("format_loan_data", ItemAt(table, key), TRUE,
              format_loan_data_outcome(ItemAt(table, key)))

FormatFinanceData(key) ==
    \E store_ok \in BOOLEAN :
        Formatted("format_finance_data", ItemAt(table, key), store_ok,
                  format_finance_data_outcome(table, ItemAt(table, key), store_ok))

\* lambda_handler(event, context), at most cap times
Invoke(events, cap) ==
    \E event \in events, gsi_ok \in BOOLEAN, store_ok \in BOOLEAN :
      \E r \in {lambda_handler(table, event, uuids, clock, gsi_ok, store_ok)} :
        LET op == r.route.handler
        IN  /\ clock < cap
            /\ clock' = clock + 1
            /\ table' = r.tbl
            /\ uuids' = uuids + r.uuidCalls
            /\ before' = table
            /\ last' = [op |-> op, property_id |-> r.route.property_id,
                        loan_id |-> r.route.loan_id, event |-> event,
                        statusCode |-> r.statusCode, body |-> r.body,
                        reads |-> r.reads, writes |-> r.writes,
                        uuid |-> Uuid(uuids + 1), headers |-> r.headers,
                        store_ok |-> store_ok]
            /\ createdBy' = IF op = "create_property" /\ r.statusCode = 201
                            THEN (r.body.id.s :> r.body.owner_id) @@ createdBy
                            ELSE createdBy
            /\ scen' = ScenarioStep(scen, op, r.route.property_id, event, r)
            /\ fresh' = FreshStep(fresh, op, event, r)
            /\ UNCHANGED <<inflight, pool>>

---------------------------------------------------------------------------
(* Spec: the property and finance routes, any Authorization header *)

Next ==
    \/ CreateProperty(Events(HeaderSets, Bodies(LeanCreateObjects)), MaxUuid)
    \/ GetProperty(NoBodyEvents(HeaderSets), MaxUuid)
    \/ UpdateProperty(Events(HeaderSets, Bodies(UpdateObjects)), MaxUuid)
    \/ DeleteProperty(NoBodyEvents(HeaderSets), MaxUuid)
    \/ ListProperties(NoBodyEvents(HeaderSets), MaxUuid)
    \/ GetDashboardStats(NoBodyEvents(HeaderSets), MaxUuid)
    \/ GetPropertyFinance(NoBodyEvents(HeaderSets), MaxUuid)
    \/ UpdatePropertyFinance(Events(HeaderSets, Bodies(FinanceObjects)), MaxUuid)

Spec == Init /\ [][Next]_vars

---------------------------------------------------------------------------
(* SpecCreate: create_property over every payload shape, then get_property *)

NextCreate ==
    \/ CreateProperty(Events(PlainHeaders, Bodies(CreateObjects)), MaxCreates)
    \/ GetProperty(NoBodyEvents(PlainHeaders), MaxCreates)

SpecCreate == Init /\ [][NextCreate]_vars

---------------------------------------------------------------------------
(* SpecLoan: the loan routes, on properties that exist or not *)

NextLoan ==
    \/ CreateProperty(Events(PlainHeaders, {JsonBody(UnitA)}), MaxLoanUuid)
    \/ AddPropertyLoan(Events(PlainHeaders, Bodies(LoanObjects)), MaxLoanUuid)
    \/ UpdatePropertyLoan(Events(PlainHeaders, Bodies(LoanObjects)), MaxLoanUuid)
    \/ DeletePropertyLoan(NoBodyEvents(PlainHeaders), MaxLoanUuid)

SpecLoan == Init /\ [][NextLoan]_vars

---------------------------------------------------------------------------
(* SpecLoanUpdate: loans added whole, then updated field by field *)

NextLoanUpdate ==
    \/ AddPropertyLoan(Events(PlainHeaders, Bodies(LoanObjects)), MaxPatchUuid)
    \/ UpdatePropertyLoan(Events(PlainHeaders, Bodies(LoanPatchObjects)), MaxPatchUuid)

SpecLoanUpdate == Init /\ [][NextLoanUpdate]_vars

---------------------------------------------------------------------------
(* SpecFinance: a property of U1 with its finance record and loans *)

NextFinance ==
    \/ CreateProperty(Events({AsUser("U1")}, {JsonBody(UnitA)}), MaxFinanceUuid)
    \/ UpdatePropertyFinance(
           Events({AsUser("U1")}, {JsonBody(o) : o \in FinanceLoanObjects}),
           MaxFinanceUuid)
    \/ AddPropertyLoan(Events({EmptyObj}, {JsonBody([lender |-> Str("Bank")])}),
                       MaxFinanceUuid)
    \/ GetPropertyFinance(NoBodyEvents({AsUser("U1")}), MaxFinanceUuid)
    \/ DeleteProperty(NoBodyEvents({EmptyObj}), MaxFinanceUuid)

SpecFinance == Init /\ [][NextFinance]_vars

---------------------------------------------------------------------------
(* SpecRace: update_property in two steps, interleaved with other requests *)

NextRace ==
    \/ CreateProperty(Events(PlainHeaders, {JsonBody(UnitA)}), MaxRaceUuid)
    \/ UpdatePropertyRead(Events(PlainHeaders, {JsonBody(o) : o \in PatchObjects}),
                          MaxRaceUuid)
    \/ UpdatePropertyWrite
    \/ GetProperty(NoBodyEvents(PlainHeaders), MaxRaceUuid)
    \/ DeleteProperty(NoBodyEvents(PlainHeaders), MaxRaceUuid)

SpecRace == Init /\ [][NextRace]_vars

---------------------------------------------------------------------------
(* SpecAuth: registration and login *)

Ann == [firstName |-> Str("Ann"), lastName |-> Str("Lee")]
Registration(username, profile) ==
    [username |-> Str(username), password |-> Str("pw-" \o username),
     email |-> Str(username \o "@x"), profile |-> Map(profile)]
\* registrations: with a name, with a phone, with coordinates in the
\* address, without a profile, without an email
RegisterObjects ==
    {Registration("ann", Ann),
     Registration("ann", Ann @@ [address |-> Map([lat |-> FloatV(40, 5)])]),
     Registration("bob", [firstName |-> Str("Bob"), phone |-> Str("5550100")]),
     [username |-> Str("bob"), password |-> Str("pw-bob"), email |-> Str("bob@x")],
     [username |-> Str("ann"), password |-> Str("pw-ann")]}
\* logins: the registered password, another one, no password
LoginObjects ==
    {[username |-> Str(u), password |-> Str(pw)] :
        u \in {"ann", "bob"}, pw \in {"pw-ann", "pw-bob"}}
    \cup {[username |-> Str("ann")]}

NextAuth ==
    \/ HandleRegister({[body |-> b] : b \in Bodies(RegisterObjects)}, MaxAuthUuid)
    \/ HandleLogin({[body |-> b] : b \in Bodies(LoginObjects)})

SpecAuth == Init /\ [][NextAuth]_vars

---------------------------------------------------------------------------
(* SpecProfile: the profile routes *)

NextProfile ==
    \/ GetProfile(GetProfileEvents, MaxProfiles)
    \/ UpdateProfile(UpdateProfileEvents, MaxProfiles)

SpecProfile == Init /\ [][NextProfile]_vars

---------------------------------------------------------------------------
(* SpecRouter: whole requests through lambda_handler, store up or down *)

NextRouter == Invoke(RouterEvents, MaxClock)

SpecRouter == Init /\ [][NextRouter]_vars

---------------------------------------------------------------------------
(* SpecFormat: the formatters on whatever the table holds under a key *)

NextFormat ==
    \/ StoreItem(PropertyKey(Uuid(1)), PropertyItems)
    \/ StoreItem(LoanKey(Uuid(1), "L1"), LoanItems)
    \/ StoreItem(FinanceKey(Uuid(1)), FinanceItems)
    \/ FormatProperty(PropertyKey(Uuid(1)))
    \/ FormatLoanData(LoanKey(Uuid(1), "L1"))
    \/ FormatFinanceData(FinanceKey(Uuid(1)))

SpecFormat == Init /\ [][NextFormat]_vars

---------------------------------------------------------------------------
(* Properties *)

\* the user whose verified bearer token the request carries, or None
BearerOf(event) ==
    LET hs == Get(event, "headers", EmptyObj)
    IN  IF \E u \in Users : hs = AsUser(u)
        THEN Str(CHOOSE u \in Users : hs = AsUser(u))
        ELSE None

\* the last request named a property whose item existed / was owned by owner
Existed == PropertyKey(last.property_id) \in DOMAIN before
OwnerBefore == Get(before[PropertyKey(last.property_id)], "owner_id", None)

\* equal as JSON values: numbers by value, anything else literally
Same(a, b) ==
    IF IsNumber(a) /\ IsNumber(b) THEN a.v = b.v /\ a.f = b.f ELSE a = b

\* a create payload's title is empty or absent / its price is negative
NoTitle(data) == "title" \notin DOMAIN data \/ data.title = Str("")
NegativePrice(data) ==
    "price" \in DOMAIN data /\ IsNumber(data.price) /\ data.price.v < 0

\* C1: delete_property removes the property item only for its authenticated
\* owner: without a verified bearer token it answers 401, for a caller who is
\* not the owner 403, and in both cases the table is unchanged.
C1_DeleteOnlyByOwner ==
    last.op = "delete_property" =>
        /\ BearerOf(last.event) = None =>
               last.statusCode = 401 /\ table = before
        /\ (BearerOf(last.event) # None /\ Existed
              /\ OwnerBefore # BearerOf(last.event)) =>
               last.statusCode = 403 /\ table = before

\* C2: get_property, update_property, get_property_finance and
\* update_property_finance, for an authenticated caller: 404 when the property
\* item does not exist; 403 and an unchanged table when it exists with another
\* owner_id (so a missing item is never reported as forbidden).
C2_NotFoundThenForbidden ==
    (/\ last.op \in {"get_property", "update_property",
                     "get_property_finance", "update_property_finance"}
     /\ BearerOf(last.event) # None) =>
        /\ ~Existed => last.statusCode = 404 /\ table = before
        /\ (Existed /\ OwnerBefore # BearerOf(last.event)) =>
               last.statusCode = 403 /\ table = before
        /\ last.statusCode = 403 => Existed

C2_Witness ==
    /\ last.op = "update_property"
    /\ last.statusCode = 403
    /\ BodyParses(last.event)
    /\ Existed

\* C3: add_property_loan, update_property_loan and delete_property_loan answer
\* 401 without a verified bearer token, 404 when the parent property item
\* does not exist and 403 when its owner_id is not the caller, and in each of
\* these cases leave the table unchanged.
C3_LoanNeedsOwnedParent ==
    last.op \in {"add_property_loan", "update_property_loan",
                 "delete_property_loan"} =>
        /\ BearerOf(last.event) = None =>
               last.statusCode = 401 /\ table = before
        /\ (BearerOf(last.event) # None /\ ~Existed) =>
               last.statusCode = 404 /\ table = before
        /\ (BearerOf(last.event) # None /\ Existed
              /\ OwnerBefore # BearerOf(last.event)) =>
               last.statusCode = 403 /\ table = before

\* C4: GET and PUT /api/profile without a verified bearer token answer 401
\* and neither read nor write the table.
C4_ProfileNeedsBearer ==
    (/\ last.op \in {"get_profile", "update_profile"}
     /\ BearerOf(last.event) = None) =>
        /\ last.statusCode = 401
        /\ last.reads = 0
        /\ last.writes = 0
        /\ table = before

\* C5: list_properties, create_property, get_property, update_property,
\* get_dashboard_stats, get_property_finance and update_property_finance answer
\* 401 without reading or writing the table whenever the request carries no
\* verified bearer token (no header, a non-Bearer header, an invalid token).
C5_UnauthenticatedIs401 ==
    (/\ last.op \in {"list_properties", "create_property", "get_property",
                     "update_property", "get_dashboard_stats",
                     "get_property_finance", "update_property_finance"}
     /\ BearerOf(last.event) = None) =>
        /\ last.statusCode = 401
        /\ last.reads = 0
        /\ last.writes = 0
        /\ table = before

C5_Witness ==
    /\ last.op = "update_property_finance"
    /\ last.event.headers = [Authorization |-> [scheme |-> "Basic", token |-> "tok-U1"]]
    /\ BodyParses(last.event)
    /\ Existed
    /\ last.statusCode = 401

\* C6: every existing property item has the owner_id create_property gave it.
C6_OwnerImmutable ==
    \A pid \in DOMAIN createdBy :
        PropertyKey(pid) \in DOMAIN table =>
            Get(table[PropertyKey(pid)], "owner_id", None) = createdBy[pid]

\* C9: delete_property of an id that has no property item answers 404 (so the
\* second of two deletes of the same id answers 404).
C9_DeleteMissingIs404 ==
    (last.op = "delete_property" /\ ~Existed) => last.statusCode = 404

\* C10: create {title: "Unit A", price: 1200} as U1, get as U2, get as U1,
\* delete as U1, get as U1 answer 201 with owner_id U1, 403, 200 with that
\* title and price, 200 and 404.
C10_Scenario ==
    /\ scen.step >= 1 => /\ scen.seen[1].statusCode = 201
                         /\ scen.seen[1].body.owner_id = Str("U1")
    /\ scen.step >= 2 => scen.seen[2].statusCode = 403
    /\ scen.step >= 3 => /\ scen.seen[3].statusCode = 200
                         /\ scen.seen[3].body.property.title = Str("Unit A")
                         /\ Same(scen.seen[3].body.property.rent, IntV(1200))
                         /\ scen.seen[3].body.property.owner_id = Str("U1")
    /\ scen.step >= 4 => scen.seen[4].statusCode = 200
    /\ scen.step >= 5 => scen.seen[5].statusCode = 404

C10_Witness == scen.step = 5

\* the last request was a get_property of the property the preceding
\* successful create_property made, by the caller of that create
GetOfFresh ==
    /\ last.op = "get_property"
    /\ fresh.pid # ""
    /\ last.property_id = fresh.pid
    /\ BearerOf(last.event) = BearerOf(fresh.event)

\* the field of the returned record that carries a payload field
Wire(field) == IF field = "price" THEN "rent" ELSE field

\* for an authenticated caller and a payload with a non-empty title and no
\* negative price, create_property answers 201 with an id no earlier create
\* was given and the caller as owner_id, and adds exactly that one item
CreateAnswer ==
    (/\ last.op = "create_property"
     /\ BearerOf(last.event) # None
     /\ BodyParses(last.event)
     /\ ~NoTitle(last.event.body.json)
     /\ ~NegativePrice(last.event.body.json)) =>
        /\ last.statusCode = 201
        /\ last.body.owner_id = BearerOf(last.event)
        /\ Cardinality(DOMAIN createdBy) = uuids
        /\ last.writes = 1
        /\ PropertyKey(last.body.id.s) \notin DOMAIN before
        /\ DOMAIN table = DOMAIN before \cup {PropertyKey(last.body.id.s)}
        /\ \A k \in DOMAIN before : table[k] = before[k]

OwnedBy(tbl, caller) ==
    {tbl[k] : k \in {q \in DOMAIN tbl : /\ StartsWith(q.pk, "PROPERTY#")
                                        /\ q.sk = "METADATA"
                                        /\ Get(tbl[q], "owner_id", None) = caller}}

\* C11: list_properties answers an authenticated caller 200 with exactly the
\* property items of the table whose owner_id is the caller, whether the gsi1
\* query answered or raised and the handler scanned.
C11_ListExactlyOwned ==
    (last.op = "list_properties" /\ BearerOf(last.event) # None) =>
        /\ last.statusCode = 200
        /\ last.body.properties =
               {format_property(i) : i \in OwnedBy(before, BearerOf(last.event))}

\* the last step was a request to lambda_handler that names a method and a path
Requested ==
    /\ "headers" \in DOMAIN last
    /\ "httpMethod" \in DOMAIN last.event
    /\ "path" \in DOMAIN last.event

\* the route table: the handler and path parameters of (method, path), read
\* off the shape of the path, or not_found
RouteTable(method, path) ==
    LET n == Len(path)
        under == n >= 4 /\ SubSeq(path, 1, 3) = <<"", "api", "properties">>
    IN  IF n = 4 /\ SubSeq(path, 1, 3) = <<"", "api", "auth">>
           /\ path[4] \in {"login", "register"} /\ method = "POST"
        THEN To("handle_" \o path[4], "", "")
        ELSE IF path = <<"", "api", "profile">> /\ method \in {"GET", "PUT"}
        THEN To(IF method = "GET" THEN "get_profile" ELSE "update_profile", "", "")
        ELSE IF path = <<"", "api", "properties">> /\ method \in {"GET", "POST"}
        THEN To(IF method = "GET" THEN "list_properties" ELSE "create_property", "", "")
        ELSE IF under /\ n = 4 /\ method \in {"GET", "PUT", "DELETE"}
        THEN To(IF method = "GET" THEN "get_property"
                ELSE IF method = "PUT" THEN "update_property"
                ELSE "delete_property", path[4], "")
        ELSE IF under /\ n = 5 /\ path[5] = "finance" /\ method \in {"GET", "PUT"}
        THEN To(IF method = "GET" THEN "get_property_finance"
                ELSE "update_property_finance", path[4], "")
        ELSE IF under /\ n = 5 /\ path[5] = "loans" /\ method = "POST"
        THEN To("add_property_loan", path[4], "")
        ELSE IF under /\ n = 6 /\ path[5] = "loans" /\ method \in {"PUT", "DELETE"}
        THEN To(IF method = "PUT" THEN "update_property_loan"
                ELSE "delete_property_loan", path[4], path[6])
        ELSE IF path = <<"", "api", "dashboard">> /\ method = "GET"
        THEN To("get_dashboard_stats", "", "")
        ELSE IF path = <<"", "api", "health">> /\ method = "GET"
        THEN To("get_health_status", "", "")
        ELSE To("not_found", "", "")

\* the route the last request took
Taken == To(last.op, last.property_id, last.loan_id)

\* C12: a request whose (method, path) is not in the route table and whose
\* method is not OPTIONS is answered 404 {error: "Not found"}; no handler is
\* invoked and the table is neither read nor written.
C12_UnroutedIs404 ==
    (/\ Requested
     /\ last.event.httpMethod # "OPTIONS"
     /\ RouteTable(last.event.httpMethod, last.event.path).handler = "not_found") =>
        /\ last.statusCode = 404
        /\ last.body = [error |-> "Not found"]
        /\ last.op = "not_found"
        /\ last.reads = 0 /\ last.writes = 0
        /\ table = before

\* C13: a request for /api/properties/{id}, {id}/finance, {id}/loans or
\* {id}/loans/{loanId} with a method of the route table reaches the handler
\* of that route with property_id = id and loan_id = loanId, whatever text
\* the ids contain.
C13_DispatchFaithful ==
    (/\ Requested
     /\ last.event.httpMethod # "OPTIONS"
     /\ Len(last.event.path) >= 4
     /\ RouteTable(last.event.httpMethod, last.event.path).handler # "not_found") =>
        Taken = RouteTable(last.event.httpMethod, last.event.path)

\* C14: an OPTIONS request to any path, with or without an Authorization
\* header, is answered 200 with an empty body and the CORS headers; no
\* handler runs and the table is neither read nor written.
C14_PreflightDoesNothing ==
    (Requested /\ last.event.httpMethod = "OPTIONS") =>
        /\ last.statusCode = 200
        /\ last.body = Str("")
        /\ last.headers = CorsHeaders
        /\ last.op = "none"
        /\ last.reads = 0 /\ last.writes = 0
        /\ table = before

C14_Witness ==
    /\ Requested
    /\ last.event.httpMethod = "OPTIONS"
    /\ last.event.path = <<"", "api", "properties", Uuid(1)>>
    /\ last.event.headers = AsUser("U1")
    /\ ~last.store_ok
    /\ PropertyKey(Uuid(1)) \in DOMAIN table
    /\ last.statusCode = 200

\* C15: lambda_handler answers every event with a statusCode, the three CORS
\* headers and a body; an event that is None or lacks httpMethod or path,
\* and a store exception raised in a handler that does not catch it, are
\* answered 500 with body {error: <message>} and the table unchanged.
C15_AlwaysEnvelope ==
    "headers" \in DOMAIN last =>
        /\ last.statusCode \in {200, 201, 400, 401, 403, 404, 500, 503}
        /\ DOMAIN last.headers = {"Access-Control-Allow-Origin",
                                  "Access-Control-Allow-Headers",
                                  "Access-Control-Allow-Methods"}
        /\ "body" \in DOMAIN last
        /\ ~Requested =>
               /\ last.statusCode = 500
               /\ DOMAIN last.body = {"error"}
               /\ table = before
        /\ (/\ Requested
            /\ ~last.store_ok
            /\ last.reads + last.writes > 0
            /\ last.op \in {"get_property", "delete_property",
                            "get_dashboard_stats"}) =>
               /\ last.statusCode = 500
               /\ last.body = [error |-> StoreError]
               /\ table = before

C15_Witness ==
    /\ Requested
    /\ ~last.store_ok
    /\ last.op = "delete_property"
    /\ last.statusCode = 500
    /\ table # EmptyObj

\* the handlers that parse event['body'] as JSON
JsonHandlers ==
    {"create_property", "update_property", "update_property_finance",
     "add_property_loan", "update_property_loan"}

\* C16: a handler that parses a JSON body and is handed a body that does not
\* parse (or no body), once past its authentication and ownership checks,
\* answers 400 and writes nothing.
C16_BadBodyIs400 ==
    (/\ last.op \in JsonHandlers
     /\ ~BodyParses(last.event)
     /\ last.statusCode \notin {401, 403, 404}) =>
        /\ last.statusCode = 400
        /\ last.writes = 0
        /\ table = before

\* a GET /api/health request
HealthRequested ==
    /\ Requested
    /\ last.event.httpMethod = "GET"
    /\ last.event.path = <<"", "api", "health">>

\* C17: GET /api/health needs no Authorization header and probes the store
\* once: 200 with status "healthy" when the probe answers, 503 with status
\* "unhealthy" and the error text when it raises; the table is never
\* modified.
C17_HealthProbe ==
    HealthRequested =>
        /\ last.op = "get_health_status"
        /\ last.reads = 1 /\ last.writes = 0
        /\ table = before
        /\ last.store_ok =>
               /\ last.statusCode = 200
               /\ last.body.status = "healthy"
        /\ ~last.store_ok =>
               /\ last.statusCode = 503
               /\ last.body.status = "unhealthy"
               /\ last.body.error = StoreError

C17_Witness ==
    /\ HealthRequested
    /\ last.event.headers = EmptyObj
    /\ ~last.store_ok
    /\ last.statusCode = 503
    /\ table # EmptyObj

\* C18: a record that had a created_at before a request still has it, with
\* the same value, after the request, whatever the request was.
C18_CreatedAtPreserved ==
    \A key \in DOMAIN before \cap DOMAIN table :
        "created_at" \in DOMAIN before[key] =>
            /\ "created_at" \in DOMAIN table[key]
            /\ table[key].created_at = before[key].created_at

\* C19: the item add_property_loan and update_property_loan hand to
\* put_item holds no float: a float of the payload has been replaced by its
\* decimal.
C19_NoFloatToStore ==
    /\ (last.op = "add_property_loan" /\ BodyParses(last.event)) =>
           ~HasFloat(add_property_loan_item(last.property_id,
                                            json_loads(last.event), last.uuid, clock))
    /\ (last.op = "update_property_loan" /\ BodyParses(last.event)) =>
           ~HasFloat(update_property_loan_item(last.property_id, last.loan_id,
                                               json_loads(last.event), clock))

\* C20: format_property, format_loan_data and format_finance_data return a
\* representation for every argument, None included; none of them raises.
C20_FormattersNeverRaise ==
    last.op \in {"format_property", "format_loan_data", "format_finance_data"} =>
        ~last.out.raised

\* C21: the record create_property returns for a payload it accepts, which
\* is format_property of the item it stored, has every field of the payload
\* under the same name with an equal value.
C21_RoundTrip ==
    (last.op = "create_property" /\ last.statusCode = 201) =>
        \A f \in DOMAIN last.event.body.json :
            /\ f \in DOMAIN last.body
            /\ Same(last.body[f], last.event.body.json[f])

\* C22: get_dashboard_stats for an authenticated caller reports as
\* total_properties and my_properties the number of property items the caller
\* owns, as active_properties and vacant_properties the numbers of those with
\* status active and vacant, and 0 for the two placeholders, on the index
\* path and on the scan path.
C22_DashboardCounts ==
    (last.op = "get_dashboard_stats" /\ BearerOf(last.event) # None) =>
        LET mine == OwnedBy(before, BearerOf(last.event))
        IN  /\ last.statusCode = 200
            /\ last.body.total_properties = Cardinality(mine)
            /\ last.body.my_properties = Cardinality(mine)
            /\ last.body.active_properties =
                   Cardinality({i \in mine : Get(i, "status", Str("active")) = Str("active")})
            /\ last.body.vacant_properties =
                   Cardinality({i \in mine : Get(i, "status", Str("active")) = Str("vacant")})
            /\ last.body.maintenance_requests = 0
            /\ last.body.rent_collected_this_month = 0

\* C23: every (PROPERTY#id, METADATA) item has gsi1pk = "OWNER#" followed by
\* its owner_id, so list_properties answers a caller alike on the index path
\* and on the scan path.
C23_IndexConsistent ==
    /\ \A key \in DOMAIN table :
           (StartsWith(key.pk, "PROPERTY#") /\ key.sk = "METADATA") =>
               /\ "owner_id" \in DOMAIN table[key]
               /\ table[key].owner_id.t = "str"
               /\ Get(table[key], "gsi1pk", None) =
                      Str("OWNER#" \o table[key].owner_id.s)
    /\ \A caller \in Users :
           list_properties(table, [headers |-> AsUser(caller)], TRUE).body =
           list_properties(table, [headers |-> AsUser(caller)], FALSE).body

\* the stored attribute a loan payload field is written to
LoanAttribute(field) == IF field = "originalAmount" THEN "original_amount" ELSE field

\* C24: after an update_property_loan of a stored loan, every attribute of
\* the loan that the body does not name, updated_at apart, is as it was.
C24_LoanUpdateFrame ==
    (/\ last.op = "update_property_loan"
     /\ last.statusCode = 200
     /\ LoanKey(last.property_id, last.loan_id) \in DOMAIN before) =>
        LET key == LoanKey(last.property_id, last.loan_id)
            named == {LoanAttribute(f) : f \in DOMAIN last.event.body.json}
        IN  \A a \in DOMAIN before[key] \ (named \cup {"updated_at"}) :
                /\ a \in DOMAIN table[key]
                /\ table[key][a] = before[key][a]

\* C25: delete_property removes the (PROPERTY#id, METADATA) item and nothing
\* else: the FINANCE item and the LOAN# items of the same partition, and the
\* items of other partitions, are as they were.
C25_DeleteDoesNotCascade ==
    last.op = "delete_property" =>
        /\ DOMAIN table = DOMAIN before \ {PropertyKey(last.property_id)}
        /\ \A key \in DOMAIN table : table[key] = before[key]

C25_Witness ==
    /\ last.op = "delete_property"
    /\ last.property_id = Uuid(1)
    /\ PropertyKey(Uuid(1)) \in DOMAIN before
    /\ PropertyKey(Uuid(1)) \notin DOMAIN table
    /\ FinanceKey(Uuid(1)) \in DOMAIN table
    /\ LoanKey(Uuid(1), "L1") \in DOMAIN table
    /\ \E key \in DOMAIN table : key.pk # "PROPERTY#" \o Uuid(1)

\* C26: every loan item's sort key is "LOAN#" followed by the item's own
\* loan_id.
C26_LoanKeyIsLoanId ==
    \A key \in DOMAIN table :
        StartsWith(key.sk, "LOAN#") =>
            /\ "loan_id" \in DOMAIN table[key]
            /\ key.sk = "LOAN#" \o table[key].loan_id.s

\* C28: a finance read the owner is answered 200 returns in finance.loans
\* every LOAN# item stored under the property, whether or not the property
\* has a FINANCE item.
C28_FinanceReadListsLoans ==
    (last.op = "get_property_finance" /\ last.statusCode = 200) =>
        last.body.finance.loans =
            {format_loan_data(l) : l \in query_loans(before, last.property_id)}

\* C27: an update_property never brings a property item into existence, also
\* when a delete_property of the same id ran between its ownership read and
\* its write; and every property item has an owner_id.
C27_NoResurrection ==
    /\ last.op = "update_property" =>
           (PropertyKey(last.property_id) \in DOMAIN table =>
                PropertyKey(last.property_id) \in DOMAIN before)
    /\ \A key \in DOMAIN table :
           (StartsWith(key.pk, "PROPERTY#") /\ key.sk = "METADATA") =>
               "owner_id" \in DOMAIN table[key]

\* C29: registration is all-or-nothing: when handle_register answers anything
\* but 201, the user pool holds no user this request created.
C29_RegisterAllOrNothing ==
    (last.op = "handle_register" /\ last.statusCode # 201) =>
        DOMAIN pool = DOMAIN last.pool_before

\* the profile items registration wrote for username
RegisteredProfiles(username) ==
    {table[key] : key \in {k \in DOMAIN table :
        /\ k.sk = "PROFILE"
        /\ Get(table[k], "cognito_username", None) = username}}

\* C30: after a 201 registration of u with firstName F and lastName L, a
\* successful login of u, with the table answering, returns
\* user.firstName = F and user.lastName = L.
C30_LoginReadsRegisteredProfile ==
    (last.op = "handle_login" /\ last.statusCode = 200 /\ last.store_ok) =>
        \A item \in RegisteredProfiles(last.body.user.username) :
            /\ last.body.user.firstName = item.first_name
            /\ last.body.user.lastName = item.last_name

====
